---- MODULE Spec2Model ----
(***************************************************************************)
(* Model of pw_handler.py: the PasswordHandler session (key derivation,    *)
(* the AES-CBC envelope with 0xFF fill, the in-memory record store and the *)
(* command loop), together with the file that survives between sessions.   *)
(*                                                                         *)
(* Text is modelled as sequences of character codes, bytes as 0..255.      *)
(* AES is modelled as an ideal cipher: a ciphertext is the term            *)
(* (key, iv, plaintext); decrypting it with the same key and iv gives the  *)
(* plaintext back, decrypting it with anything else gives bytes that the   *)
(* model does not compute and therefore chooses nondeterministically.      *)
(***************************************************************************)
EXTENDS Integers, Sequences, FiniteSets, TLC

\* state: RUNNING, or EXITING after sys.exit(), or CRASHED after an uncaught
\*     exception; key, content, content_lines: the fields of the session
\*     (self.ciphertext lives only inside _load and is local to Constructed);
\* file: the bytes at self.filename; inp: the line being processed;
\* out: what processing it printed and did, in order;
\* gen: the locals of _generate_password while its loop runs
VARIABLES state, key, content, content_lines, file, inp, out, gen

vars == <<state, key, content, content_lines, file, inp, out, gen>>

----------------------------------------------------------------------------
(* Bounds of the model *)

\* most records the store holds; write is not offered beyond it
MaxLines == 2

(* Program constants *)

\* AES block size: the modulus of the fill computation and the IV length
BLOCK == 16
\* number of passphrase fields kept for the prekey
KEYLEN == 16
\* the fill byte appended by _encrypt and searched by _decrypt
FILL == 255
\* default and floor of the generated password length
DEFAULT_K == 8
MIN_K == 4

NL == 10
SP == 32
DOT == 46

----------------------------------------------------------------------------
(* Python built-ins used by the program *)

Range(s) == {s[i] : i \in 1..Len(s)}

Max(a, b) == IF a >= b THEN a ELSE b

RECURSIVE SplitAcc(_, _, _, _)
SplitAcc(s, sep, cur, acc) ==
    IF s = <<>> THEN Append(acc, cur)
    ELSE IF Head(s) = sep THEN SplitAcc(Tail(s), sep, <<>>, Append(acc, cur))
    ELSE SplitAcc(Tail(s), sep, Append(cur, Head(s)), acc)

\* str.split(sep) / bytes.split(sep): empty fields are kept
Split(s, sep) == SplitAcc(s, sep, <<>>, <<>>)

RECURSIVE JoinTrailing(_, _)
\* a join that ends every item with the separator
JoinTrailing(l, sep) ==
    IF l = <<>> THEN <<>> ELSE l[1] \o sep \o JoinTrailing(Tail(l), sep)

RECURSIVE Join(_, _)
\* sep.join(list)
Join(l, sep) ==
    IF l = <<>> THEN <<>>
    ELSE IF Len(l) = 1 THEN l[1]
    ELSE l[1] \o sep \o Join(Tail(l), sep)

RECURSIVE DigitsVal(_, _)
DigitsVal(s, acc) ==
    IF s = <<>> THEN acc ELSE DigitsVal(Tail(s), 10 * acc + (Head(s) - 48))

IsDigits(s) == s # <<>> /\ \A i \in 1..Len(s) : s[i] \in 48..57

\* int(str): an optional sign followed by decimal digits, ValueError otherwise
ParseInt(s) ==
    LET signed == s # <<>> /\ s[1] \in {43, 45}
        body == IF signed THEN Tail(s) ELSE s
    IN  IF IsDigits(body)
        THEN [ok |-> TRUE,
              val |-> IF s[1] = 45 THEN 0 - DigitsVal(body, 0)
                      ELSE DigitsVal(body, 0)]
        ELSE [ok |-> FALSE, val |-> 0]

\* bytes.decode(): the lines of this model hold bytes >= 128 only as lone
\* continuation or fill bytes, which are not valid UTF-8
Decodable(line) == \A i \in 1..Len(line) : line[i] < 128

\* an encoding that takes every character up to U+00FF
IsLatin1(msg) == \A i \in 1..Len(msg) : msg[i] < 256

\* bytearray(msg, encoding='ascii') succeeds
IsAscii(msg) == \A i \in 1..Len(msg) : msg[i] < 128

\* first position of b in x (1-based), 0 when absent
RECURSIVE IndexFrom(_, _, _)
IndexFrom(x, b, i) ==
    IF i > Len(x) THEN 0 ELSE IF x[i] = b THEN i ELSE IndexFrom(x, b, i + 1)

Index(x, b) == IndexFrom(x, b, 1)

----------------------------------------------------------------------------
(* The cipher *)

NoKey == [aes |-> "none", x |-> <<>>]

\* the fixed key bytes([int(i%5==0) for i in range(16)]) and the zero IV of
\* _get_password
FixedKey == [aes |-> "const", x |-> [i \in 1..KEYLEN |-> IF (i - 1) % 5 = 0 THEN 1 ELSE 0]]

\* one CBC block under the fixed key and zero IV: a permutation of the
\* 16-byte blocks, so equal blocks give equal keys and distinct blocks
\* distinct keys
AESFixed(prekey) == [aes |-> "derived", x |-> prekey]

EmptyBody == [k |-> NoKey, iv |-> <<>>, pt |-> <<>>]

\* AES.new(key, MODE_CBC, iv).encrypt(pt); no bytes in, no bytes out
CBCEncrypt(k, iv, pt) ==
    IF pt = <<>> THEN EmptyBody ELSE [k |-> k, iv |-> iv, pt |-> pt]

\* what decryption under a key or iv other than the encrypting one can give:
\* bytes without the fill byte, or bytes whose first fill byte follows one
\* byte that is not text (passphrase "126" on a file saved under "1" with
\* the record "a" and a zero IV gives the byte 0xBA and then the fill byte)
Garbage(n) ==
    { [i \in 1..n |-> 19],
      [i \in 1..n |-> IF i = 1 THEN 186 ELSE IF i = 2 THEN FILL ELSE 19] }

\* AES.new(key, MODE_CBC, iv).decrypt(body): the set of possible results
CBCDecrypt(k, iv, body) ==
    IF body = EmptyBody THEN {<<>>}
    ELSE IF body.k = k /\ body.iv = iv THEN {body.pt}
    ELSE Garbage(Len(body.pt))

\* the 16-byte IVs random.randint can draw that the model distinguishes
IVs == {[i \in 1..BLOCK |-> 0]}

NoBytes == [iv |-> <<>>, body |-> EmptyBody]

NoFile == [exists |-> FALSE, iv |-> <<>>, body |-> EmptyBody]

BytesLen(c) == Len(c.iv) + Len(c.body.pt)

----------------------------------------------------------------------------
(* PasswordHandler helpers *)

\* _get_password: split on '.', repeat to 16 fields, int() each, bytes(),
\* one AES block; ok = FALSE stands for the ValueError of int() or bytes()
get_password(x) ==
    LET x_list == Split(x, DOT)
        rep == [i \in 1..KEYLEN |-> x_list[((i - 1) % Len(x_list)) + 1]]
        ints == [i \in 1..KEYLEN |-> ParseInt(rep[i])]
    IN  IF \A i \in 1..KEYLEN : ints[i].ok /\ ints[i].val \in 0..255
        THEN [ok |-> TRUE, key |-> AESFixed([i \in 1..KEYLEN |-> ints[i].val])]
        ELSE [ok |-> FALSE, key |-> NoKey]

\* _read_file
read_file(f) == IF ~f.exists THEN NoBytes ELSE [iv |-> f.iv, body |-> f.body]

\* x[:x.index(255)], ok = FALSE when index raises ValueError
CutAtFill(x) ==
    IF Index(x, FILL) = 0 THEN [ok |-> FALSE, content |-> <<>>]
    ELSE [ok |-> TRUE, content |-> SubSeq(x, 1, Index(x, FILL) - 1)]

\* _decrypt: the set of possible outcomes
decrypt(k, c) ==
    IF BytesLen(c) = 0 THEN {[ok |-> TRUE, content |-> <<>>]}
    ELSE {CutAtFill(x) : x \in CBCDecrypt(k, c.iv, c.body)}

\* the fill of _encrypt
Pad(c) == c \o [i \in 1..((0 - Len(c)) % BLOCK) |-> FILL]

\* _encrypt returns (iv, ciphertext) and leaves the filled content in
\* self.content
encrypt(k, iv, c) ==
    [content |-> Pad(c), iv |-> iv, body |-> CBCEncrypt(k, iv, Pad(c))]

\* _refresh_content_lines
refresh_content_lines(c) ==
    [kind |-> "list", items |-> SelectSeq(Split(c, NL), LAMBDA l : Len(l) > 0)]

get_first(x_list) == IF Len(x_list) = 0 THEN <<>> ELSE x_list[1]

get_second(x_list) == IF Len(x_list) < 2 THEN <<>> ELSE x_list[2]

\* _validate_row: ok = FALSE when it printed an error and returned None
validate_row(row, lines) ==
    LET p == ParseInt(row)
    IN  IF ~p.ok THEN [ok |-> FALSE, r |-> 0, msg |-> "please enter a valid integer!"]
        ELSE IF p.val < 0 \/ p.val >= Len(lines.items)
             THEN [ok |-> FALSE, r |-> 0, msg |-> "please enter a valid row number!"]
        ELSE [ok |-> TRUE, r |-> p.val, msg |-> ""]

----------------------------------------------------------------------------
(* Inputs: what the user types *)

T_a == <<97>>
T_A == <<65>>
T_b14 == [i \in 1..14 |-> 98]
T_nonascii == <<233>>

\* getpass(): "1", "1.1", "126", "", "x", "256", "1..2"
Passphrases ==
    { <<49>>, <<49, 46, 49>>, <<49, 50, 54>>, <<>>, <<120>>, <<50, 53, 54>>,
      <<49, 46, 46, 50>> }

\* arguments of write: nothing, "a", 14 b's and "a", a non-ASCII word
WriteParams == { <<>>, <<T_a>>, <<T_b14, T_a>>, <<T_nonascii>> }

\* arguments of delete: nothing, "0", "1", "5", "-1", "x"
RowParams == { <<>>, <<<<48>>>>, <<<<49>>>>, <<<<53>>>>, <<<<45, 49>>>>, <<<<120>>>> }

\* arguments of read: nothing, "1", "0 1", "-1 5", "x"
ReadParams ==
    { <<>>, <<<<49>>>>, <<<<48>>, <<49>>>>, <<<<45, 49>>, <<53>>>>, <<<<120>>>> }

\* arguments of generate: nothing, "5", "2", "x"
GenParams == { <<>>, <<<<53>>>>, <<<<50>>>>, <<<<120>>>> }

\* arguments of find: nothing, "A", "("
FindParams == { <<>>, <<T_A>>, <<<<40>>>> }

\* answers to a y/n prompt
Answers == {"y", "n", "x"}

\* first words: the four quit words, both save words, one alias of each
\* other command and a word that is in no alias list
Words ==
    { "q", "q!", "wq", "sq", "r", "w", "D", "d", "f", "gen", "c", "s", "save",
      "change", "h", "x" }

\* _init_commands: the handlers and their alias lists, in table order
COMMANDS ==
    << [fun |-> "_quit", command |-> {"q", "q!", "wq", "sq"}],
       [fun |-> "_read", command |-> {"r", "read"}],
       [fun |-> "_write", command |-> {"w", "write"}],
       [fun |-> "_delete_all", command |-> {"D", "DELETE"}],
       [fun |-> "_delete_row", command |-> {"d", "delete"}],
       [fun |-> "_find", command |-> {"f", "find"}],
       [fun |-> "_generate_password", command |-> {"gen", "generate"}],
       [fun |-> "_clear", command |-> {"c", "clear"}],
       [fun |-> "_save", command |-> {"s", "save"}],
       [fun |-> "_change_key", command |-> {"change"}],
       [fun |-> "_help", command |-> {"h", "help"}] >>

Min(S) == CHOOSE m \in S : \A n \in S : m <= n

\* _start, the for/else over COMMANDS: the handler of the first entry whose
\* alias list holds x0
Dispatch(x0) ==
    LET hit == {i \in 1..Len(COMMANDS) : x0 \in COMMANDS[i].command}
    IN  IF hit = {} THEN "invalid" ELSE COMMANDS[Min(hit)].fun

\* the words of the model that _start hands to the handler fun
Typed(fun) == {x0 \in Words : Dispatch(x0) = fun}

\* what the model records of the line being processed: the kind of line
\* ("" an empty line, " " a line of whitespace only, "cmd" a line with words,
\* "argv" the start of the process), its first word, the other words, the
\* answer typed at a y/n prompt and the passphrase typed at getpass
Line(kind, x0, params, ans, pw) ==
    [line |-> kind, x0 |-> x0, params |-> params, ans |-> ans, pw |-> pw]

Cmd(x0, params) == Line("cmd", x0, params, "", <<>>)

\* what the model records of the command's effects, in order: printed lines,
\* prompts, the file write and the exit
Msg(t) == [t |-> t, i |-> 0, s |-> <<>>]

\* _print_line
print_line(i, lines) == [t |-> "line", i |-> i, s |-> lines.items[i + 1]]

EmptyList == [kind |-> "list", items |-> <<>>]

\* the fields of a process that has ended
Gone ==
    /\ key' = NoKey
    /\ content' = <<>>
    /\ content_lines' = EmptyList

----------------------------------------------------------------------------
(* Construction: __init__ = _init_commands, _get_password, _load, _start *)

\* _get_password on each passphrase of the model
Derived == [x \in Passphrases |-> get_password(x)]

\* the session that __init__ builds on file f with passphrase x: an exception
\* of _get_password or _decrypt ends the process
Constructed(f, x) ==
    LET gp == Derived[x]
        c == read_file(f)
        o == IF f.exists THEN <<>> ELSE <<Msg("no file. initializing new one")>>
        dead(printed, exc) ==
            [state |-> "CRASHED", key |-> NoKey, content |-> <<>>,
             content_lines |-> EmptyList, out |-> printed \o <<Msg(exc)>>]
    IN  IF ~gp.ok
        THEN { dead(<<>>, "ValueError") }
        ELSE { IF d.ok
               THEN [state |-> "RUNNING", key |-> gp.key, content |-> d.content,
                     content_lines |-> refresh_content_lines(d.content), out |-> o]
               ELSE dead(o, "ValueError")
               : d \in decrypt(gp.key, c) }

\* the locals of _generate_password while no password is being generated
NoGen == [pc |-> "idle", k |-> 0, pwd |-> <<>>, good_pwd |-> FALSE]

\* the first session: the path names no file
Init ==
    /\ file = NoFile
    /\ \E x \in Passphrases : \E s \in Constructed(NoFile, x) :
          /\ inp = Line("argv", "__init__", <<>>, "", x)
          /\ state = s.state
          /\ key = s.key
          /\ content = s.content
          /\ content_lines = s.content_lines
          /\ out = s.out
    /\ gen = NoGen

\* a later session on the same path, once the previous process has ended
PasswordHandler ==
    /\ state \in {"EXITING", "CRASHED"}
    /\ \E x \in Passphrases : \E s \in Constructed(file, x) :
          /\ inp' = Line("argv", "__init__", <<>>, "", x)
          /\ state' = s.state
          /\ key' = s.key
          /\ content' = s.content
          /\ content_lines' = s.content_lines
          /\ out' = s.out
    /\ UNCHANGED <<file, gen>>

----------------------------------------------------------------------------
(* The command loop: one action per entry of COMMANDS *)

Running == state = "RUNNING"

\* an uncaught exception ends the process with a traceback
Raise(printed, exc) ==
    /\ state' = "CRASHED"
    /\ out' = printed \o <<Msg(exc)>>
    /\ Gone

\* the file that _save writes with the IV iv
Written(iv) ==
    LET e == encrypt(key, iv, content)
    IN  [exists |-> TRUE, iv |-> e.iv, body |-> e.body]

\* _save
save ==
    /\ Running
    /\ UNCHANGED gen
    /\ \E x0 \in Typed("_save") : inp' = Cmd(x0, <<>>)
    /\ \E iv \in IVs :
          /\ file' = Written(iv)
          /\ content' = encrypt(key, iv, content).content
    /\ out' = <<Msg("write file"), Msg("saved")>>
    /\ UNCHANGED <<state, key, content_lines>>

\* _save_quit with its two statements swapped: sys.exit() before _save
save_quit_exit_first(prompt) ==
    /\ out' = prompt \o <<Msg("exit")>>
    /\ state' = "EXITING"
    /\ Gone
    /\ UNCHANGED file

\* _save_quit: _save, then sys.exit()
save_quit(prompt) ==
    /\ \E iv \in IVs : file' = Written(iv)
    /\ out' = prompt \o <<Msg("write file"), Msg("saved"), Msg("exit")>>
    /\ state' = "EXITING"
    /\ Gone

\* a _force_quit that writes the file on its way out
force_quit_saving(prompt) ==
    /\ \E iv \in IVs : file' = Written(iv)
    /\ out' = prompt \o <<Msg("not saving changes"), Msg("exit")>>
    /\ state' = "EXITING"
    /\ Gone

\* _force_quit
force_quit(prompt) ==
    /\ out' = prompt \o <<Msg("not saving changes"), Msg("exit")>>
    /\ state' = "EXITING"
    /\ Gone
    /\ UNCHANGED file

\* _quit
quit ==
    /\ Running
    /\ UNCHANGED gen
    /\ \E x0 \in Typed("_quit") :
          IF x0 = "q"
          THEN \E ans \in Answers :
                  /\ inp' = Line("cmd", x0, <<>>, ans, <<>>)
                  /\ IF ans = "y" THEN save_quit(<<Msg("save changes (y/n)?:")>>)
                     ELSE IF ans = "n" THEN force_quit(<<Msg("save changes (y/n)?:")>>)
                     ELSE /\ out' = <<Msg("save changes (y/n)?:"),
                                      Msg("please enter either y or n!")>>
                          /\ UNCHANGED <<state, key, content, content_lines, file>>
          ELSE IF x0 = "q!"
          THEN inp' = Cmd(x0, <<>>) /\ force_quit(<<>>)
          ELSE x0 \in {"wq", "sq"} /\ inp' = Cmd(x0, <<>>) /\ save_quit(<<>>)

\* _write; the model offers an appending write only below MaxLines records
write ==
    /\ Running
    /\ UNCHANGED gen
    /\ \E x0 \in Typed("_write"), params \in WriteParams :
          LET msg == Join(params, <<SP>>)
          IN  /\ inp' = Cmd(x0, params)
              /\ IF ~IsAscii(msg) \/ (Len(msg) > 0 /\ content_lines.kind # "list")
                 THEN /\ out' = <<Msg("something went wrong.. please use only ascii!")>>
                      /\ UNCHANGED <<content, content_lines>>
                 ELSE IF Len(msg) > 0
                 THEN /\ Len(content_lines.items) < MaxLines
                      /\ content_lines' =
                            [content_lines EXCEPT !.items = Append(@, msg)]
                      /\ content' = Join(content_lines'.items, <<NL>>)
                      /\ out' = <<>>
                 ELSE /\ out' = <<>>
                      /\ UNCHANGED <<content, content_lines>>
    /\ UNCHANGED <<state, key, file>>

\* a _delete_all that takes every answer but n for consent
delete_all_unless_n ==
    /\ Running
    /\ UNCHANGED gen
    /\ \E x0 \in Typed("_delete_all"), ans \in Answers :
          /\ inp' = Line("cmd", x0, <<>>, ans, <<>>)
          /\ IF ans # "n"
             THEN /\ out' = <<Msg("delete all rows? (y/n)"), Msg("deleted all rows.")>>
                  /\ content' = <<>>
                  /\ content_lines' = [kind |-> "bytearray", items |-> <<>>]
             ELSE /\ out' = <<Msg("delete all rows? (y/n)"), Msg("not deleting all rows.")>>
                  /\ UNCHANGED <<content, content_lines>>
    /\ UNCHANGED <<state, key, file>>

\* _delete_all
delete_all ==
    /\ Running
    /\ UNCHANGED gen
    /\ \E x0 \in Typed("_delete_all"), ans \in Answers :
          /\ inp' = Line("cmd", x0, <<>>, ans, <<>>)
          /\ IF ans = "y"
             THEN /\ out' = <<Msg("delete all rows? (y/n)"), Msg("deleted all rows.")>>
                  /\ content' = <<>>
                  /\ content_lines' = [kind |-> "bytearray", items |-> <<>>]
             ELSE /\ out' = <<Msg("delete all rows? (y/n)"),
                              Msg(IF ans = "n" THEN "not deleting all rows."
                                  ELSE "enter either y or n.")>>
                  /\ UNCHANGED <<content, content_lines>>
    /\ UNCHANGED <<state, key, file>>

\* content_lines[:row] + content_lines[row+1:]
DeleteAt(items, row) == SubSeq(items, 1, row) \o SubSeq(items, row + 2, Len(items))

\* _delete_row
delete_row ==
    /\ Running
    /\ UNCHANGED gen
    /\ \E x0 \in Typed("_delete_row"), params \in RowParams :
          LET v == validate_row(get_first(params), content_lines)
          IN  /\ inp' = Cmd(x0, params)
              /\ IF ~v.ok
                 THEN /\ out' = <<Msg(v.msg)>>
                      /\ UNCHANGED <<state, key, content, content_lines>>
                 ELSE IF ~Decodable(content_lines.items[v.r + 1])
                 THEN Raise(<<>>, "UnicodeDecodeError")
                 ELSE /\ out' = <<[t |-> "deleted", i |-> v.r,
                                   s |-> content_lines.items[v.r + 1]]>>
                      /\ content_lines' =
                            [content_lines EXCEPT !.items = DeleteAt(@, v.r)]
                      /\ content' = Join(content_lines'.items, <<NL>>)
                      /\ UNCHANGED <<state, key>>
    /\ UNCHANGED file

\* the prints of a loop over enumerate(content_lines) that decodes the lines
\* in `decoded` and prints the lines in `printed`, up to the first line whose
\* decode raises
Printed(lines, decoded, printed) ==
    LET n == Len(lines.items)
        bad == {i \in decoded : ~Decodable(lines.items[i + 1])}
        idx == SelectSeq([j \in 1..n |-> j - 1],
                         LAMBDA i : i \in printed /\ (bad = {} \/ i < Min(bad)))
    IN  [raised |-> bad # {},
         out |-> [j \in 1..Len(idx) |-> print_line(idx[j], lines)]]

Lower(c) == IF c \in 65..90 THEN c + 32 ELSE c

\* re.compile raises re.error on a pattern with an unterminated group; the
\* other patterns of the model are literals
Compiles(regex) ==
    Cardinality({i \in 1..Len(regex) : regex[i] = 40})
        = Cardinality({i \in 1..Len(regex) : regex[i] = 41})

\* regex.search(text) for a literal pattern compiled with re.IGNORECASE
Search(regex, text) ==
    \E k \in 0..(Len(text) - Len(regex)) :
        \A j \in 1..Len(regex) : Lower(text[k + j]) = Lower(regex[j])

\* _find
find ==
    /\ Running
    /\ UNCHANGED gen
    /\ \E x0 \in Typed("_find"), params \in FindParams :
          LET regex == get_first(params)
              all == 0..(Len(content_lines.items) - 1)
              hits == {i \in all : /\ Decodable(content_lines.items[i + 1])
                                    /\ Search(regex, content_lines.items[i + 1])}
              p == Printed(content_lines, all, hits)
          IN  /\ inp' = Cmd(x0, params)
              /\ IF ~Compiles(regex) THEN Raise(<<>>, "re.error")
                 ELSE IF p.raised THEN Raise(p.out, "UnicodeDecodeError")
                 ELSE /\ out' = p.out
                      /\ UNCHANGED <<state, key, content, content_lines>>
    /\ UNCHANGED file

\* _read
read ==
    /\ Running
    /\ UNCHANGED gen
    /\ \E x0 \in Typed("_read"), params \in ReadParams :
          LET a == get_first(params)
              b == get_second(params)
              pa == ParseInt(a)
              pb == ParseInt(b)
              st_row == IF a = <<>> THEN 0 ELSE pa.val
              end_row == IF b = <<>> THEN Len(content_lines.items) ELSE pb.val
              sel == {i \in 0..(Len(content_lines.items) - 1) :
                         i >= st_row /\ i < end_row}
              p == Printed(content_lines, sel, sel)
          IN  /\ inp' = Cmd(x0, params)
              /\ IF (a # <<>> /\ ~pa.ok) \/ (b # <<>> /\ ~pb.ok)
                 THEN Raise(<<>>, "ValueError")
                 ELSE IF p.raised THEN Raise(p.out, "UnicodeDecodeError")
                 ELSE /\ out' = p.out
                      /\ UNCHANGED <<state, key, content, content_lines>>
    /\ UNCHANGED file

\* _generate_password: the printed password is recorded by its length
generate_password ==
    /\ Running
    /\ UNCHANGED gen
    /\ \E x0 \in Typed("_generate_password"), params \in GenParams :
          LET a == get_first(params)
              pa == ParseInt(a)
              k == Max(IF Len(a) > 0 THEN pa.val ELSE DEFAULT_K, MIN_K)
          IN  /\ inp' = Cmd(x0, params)
              /\ IF Len(a) > 0 /\ ~pa.ok THEN Raise(<<>>, "ValueError")
                 ELSE /\ out' = <<[t |-> "password", i |-> k, s |-> <<>>]>>
                      /\ UNCHANGED <<state, key, content, content_lines>>
    /\ UNCHANGED file

\* _clear
clear ==
    /\ Running
    /\ UNCHANGED gen
    /\ \E x0 \in Typed("_clear") : inp' = Cmd(x0, <<>>)
    /\ out' = <<Msg("clear")>>
    /\ UNCHANGED <<state, key, content, content_lines, file>>

\* _change_key
change_key ==
    /\ Running
    /\ UNCHANGED gen
    /\ \E x0 \in Typed("_change_key"), x \in Passphrases :
          /\ inp' = Line("cmd", x0, <<>>, "", x)
          /\ IF Derived[x].ok
             THEN /\ key' = Derived[x].key
                  /\ out' = <<>>
                  /\ UNCHANGED <<state, content, content_lines>>
             ELSE Raise(<<>>, "ValueError")
    /\ UNCHANGED file

\* _help
help ==
    /\ Running
    /\ UNCHANGED gen
    /\ \E x0 \in Typed("_help") : inp' = Cmd(x0, <<>>)
    /\ out' = [i \in 1..Len(COMMANDS) |-> [t |-> "help", i |-> i, s |-> <<>>]]
    /\ UNCHANGED <<state, key, content, content_lines, file>>

\* _start, for/else: no alias list holds the first word
invalid_command ==
    /\ Running
    /\ UNCHANGED gen
    /\ \E x0 \in Typed("invalid") : inp' = Cmd(x0, <<>>)
    /\ out' = <<Msg("invalid command"), Msg("enter h or help for list of commands!")>>
    /\ UNCHANGED <<state, key, content, content_lines, file>>

\* _start, inp == '': continue
empty_line ==
    /\ Running
    /\ UNCHANGED gen
    /\ inp' = Line("", "", <<>>, "", <<>>)
    /\ out' = <<>>
    /\ UNCHANGED <<state, key, content, content_lines, file>>

\* _start, a line of whitespace only: inp.split()[0] raises IndexError
blank_line ==
    /\ Running
    /\ UNCHANGED gen
    /\ inp' = Line(" ", "", <<>>, "", <<>>)
    /\ Raise(<<>>, "IndexError")
    /\ UNCHANGED file

\* _start: one line of input, dispatched on its first word
start ==
    \/ quit
    \/ read
    \/ write
    \/ delete_all
    \/ delete_row
    \/ find
    \/ generate_password
    \/ clear
    \/ save
    \/ change_key
    \/ help
    \/ invalid_command
    \/ empty_line
    \/ blank_line

Next == PasswordHandler \/ start

Spec == Init /\ [][Next]_vars

----------------------------------------------------------------------------
(* Properties *)

\* the step processes a line that _start hands to the handler fun
Handles(fun) == Running /\ inp'.line = "cmd" /\ Dispatch(inp'.x0) = fun

\* the step's effects include e
Did(e) == Msg(e) \in Range(out')

\* in the step's effects, e1 comes before e2
Before(e1, e2) ==
    \E i, j \in 1..Len(out') : i < j /\ out'[i] = Msg(e1) /\ out'[j] = Msg(e2)

\* C1: Envelope round-trip. Whenever the session writes the file, decrypting
\* the written bytes with the session's key returns exactly the Content that
\* was encrypted, for every Content length (0 and multiples of 16 included).
C1_RoundTrip ==
    [][(Running /\ Did("write file"))
          => decrypt(key, read_file(file')) = {[ok |-> TRUE, content |-> content]}]_vars

\* C2: Empty-file open. A session started with a well-formed passphrase on a
\* path that names no file, or on the file that `save` wrote for a store
\* without records, is RUNNING with an empty Record sequence.
C2_EmptyFileOpen ==
    (inp.line = "argv" /\ file.body = EmptyBody /\ Derived[inp.pw].ok)
        => (state = "RUNNING" /\ content_lines.items = <<>>)

\* C3: Key change persists immediately. When `change` completes, the file
\* on disk exists and holds the current Content encrypted under the newly
\* derived key.
C3_ChangePersists ==
    [][(Handles("_change_key") /\ state' = "RUNNING")
          => (/\ file'.exists
              /\ file'.body = CBCEncrypt(key', file'.iv, Pad(content)))]_vars

\* the line is one of the user mistakes of C4: an unknown first word, a line
\* of whitespace only, read or generate with an argument that is no integer,
\* delete with a missing or non-integer argument
Mistake(l) ==
    \/ l.line = " "
    \/ /\ l.line = "cmd"
       /\ \/ Dispatch(l.x0) = "invalid"
          \/ /\ Dispatch(l.x0) \in {"_read", "_generate_password"}
             /\ \E i \in 1..Len(l.params) : ~ParseInt(l.params[i]).ok
          \/ /\ Dispatch(l.x0) = "_delete_row"
             /\ ~ParseInt(get_first(l.params)).ok

\* C4: The dispatcher leaves RUNNING only through a quit command. A line
\* with a user mistake leaves the Record sequence unchanged and the loop in
\* RUNNING.
C4_MistakesStayRunning ==
    [][(Running /\ Mistake(inp'))
          => (state' = "RUNNING" /\ content_lines' = content_lines)]_vars

\* the step wrote the file that _save produces from the session's key and
\* Content, and wrote it before the exit
SavedThenExit ==
    /\ \E iv \in IVs :
          /\ file'.exists /\ file'.iv = iv
          /\ file'.body = CBCEncrypt(key, iv, Pad(content))
    /\ Before("write file", "exit")
    /\ state' = "EXITING"

\* the step left the file as it was and wrote nothing
FileUntouched == file' = file /\ ~Did("write file")

C6_WriteAppends ==
    [][(Handles("_write") /\ Join(inp'.params, <<SP>>) # <<>>
            /\ IsAscii(Join(inp'.params, <<SP>>)))
          => (/\ state' = "RUNNING"
              /\ content_lines'.items
                    = Append(content_lines.items, Join(inp'.params, <<SP>>)))]_vars

\* C7: Delete by index. `delete i` with 0 <= i < length removes exactly the
\* Record at index i and shifts the later Records down by one; `delete i`
\* with i < 0 or i >= length leaves the Record sequence and Content
\* unchanged.
C7_DeleteByIndex ==
    [][(Handles("_delete_row") /\ ParseInt(get_first(inp'.params)).ok) =>
          LET i == ParseInt(get_first(inp'.params)).val
              old == content_lines.items
              new == content_lines'.items
          IN  /\ state' = "RUNNING"
              /\ (0 <= i /\ i < Len(old)) =>
                    /\ Len(new) = Len(old) - 1
                    /\ \A j \in 1..Len(new) :
                          new[j] = IF j <= i THEN old[j] ELSE old[j + 1]
              /\ (i < 0 \/ i >= Len(old)) =>
                    (content_lines' = content_lines /\ content' = content)]_vars

\* C8: Authenticated load. A session opened on a file that holds records
\* with a key other than the one the file was saved under aborts; it does
\* not reach RUNNING.
C8_AuthenticatedLoad ==
    (/\ inp.line = "argv" /\ file.body # EmptyBody
     /\ Derived[inp.pw].ok /\ Derived[inp.pw].key # file.body.k)
        => state = "CRASHED"

\* the line is a passphrase entry: the start of the process or `change`
Getpass(l) ==
    l.line = "argv" \/ (l.line = "cmd" /\ Dispatch(l.x0) = "_change_key")

\* C9: Key sensitivity. When the key derived from one passphrase is replaced
\* by the key derived from a different passphrase, the key changes.
C9_KeySensitivity ==
    [][(/\ Getpass(inp) /\ Handles("_change_key") /\ state' = "RUNNING"
        /\ inp'.pw # inp.pw)
          => key' # key]_vars

\* C10: Key derivation is total. Every passphrase entry, at startup and at
\* `change`, derives a 16-byte key without an error, and `change` leaves
\* the session RUNNING under that key.
C10_DerivationTotal ==
    [][Getpass(inp') =>
          /\ Derived[inp'.pw].ok
          /\ Len(Derived[inp'.pw].key.x) = KEYLEN
          /\ Handles("_change_key")
                => (state' = "RUNNING" /\ key' = Derived[inp'.pw].key)]_vars

\* the lines `read` is to print for the row bounds st and en: the records
\* with st <= index < en, in ascending index order, as index:content
ReadOutput(items, st, en) ==
    LET lo == Max(st, 0)
        hi == IF en < Len(items) THEN en ELSE Len(items)
    IN  [j \in 1..Max(hi - lo, 0) |-> [t |-> "line", i |-> lo + j - 1, s |-> items[lo + j]]]

\* C11: Read range. For integer arguments, `read start end` prints exactly
\* the Records with start <= index < end, each once and in ascending order;
\* a missing start means 0, a missing end means length; bounds outside
\* 0..length are clamped and are no errors; the Record sequence is unchanged.
C11_ReadRange ==
    [][(/\ Handles("_read")
        /\ \A i \in 1..Len(inp'.params) : ParseInt(inp'.params[i]).ok) =>
          LET a == get_first(inp'.params)
              b == get_second(inp'.params)
              st == IF a = <<>> THEN 0 ELSE ParseInt(a).val
              en == IF b = <<>> THEN Len(content_lines.items) ELSE ParseInt(b).val
          IN  /\ state' = "RUNNING"
              /\ out' = ReadOutput(content_lines.items, st, en)
              /\ content_lines' = content_lines]_vars

\* C12: Find with an invalid pattern. `find` with a pattern that is no
\* regular expression is reported, leaves the Record sequence unchanged and
\* the dispatcher in RUNNING.
C12_FindBadPattern ==
    [][(Handles("_find") /\ ~Compiles(get_first(inp'.params)))
          => (state' = "RUNNING" /\ content_lines' = content_lines)]_vars

----------------------------------------------------------------------------
(* _generate_password, statement by statement *)

BACKSLASH == 92

\* string.digits, string.ascii_lowercase, string.ascii_uppercase and
\* string.punctuation, each by some of its characters
digits == {48}
ascii_lowercase == {97}
ascii_uppercase == {65}
punctuation == {33, BACKSLASH}

patterns == <<digits, ascii_lowercase, ascii_uppercase, punctuation>>

chars == UNION Range(patterns)

\* the characters the regular expression '[{}]'.format(pattern) matches: the
\* backslash of the pattern escapes the character after it and is itself
\* no member of the class
CharClass(pattern) == pattern \ {BACKSLASH}

\* re.search('[{}]'.format(pattern), pwd) is not None
Found(pattern, pwd) == \E i \in 1..Len(pwd) : pwd[i] \in CharClass(pattern)

\* a test that is content with one pattern found
good_any(pwd) == \E j \in 1..Len(patterns) : Found(patterns[j], pwd)

\* good_pwd after the for loop over the patterns
good(pwd) == \A j \in 1..Len(patterns) : Found(patterns[j], pwd)

\* the call up to the while loop: k is read from the parameter
gen_start ==
    /\ Running
    /\ gen.pc = "idle"
    /\ \E x0 \in Typed("_generate_password"), params \in GenParams :
          LET a == get_first(params)
              pa == ParseInt(a)
              k == Max(IF Len(a) > 0 THEN pa.val ELSE DEFAULT_K, MIN_K)
          IN  /\ inp' = Cmd(x0, params)
              /\ IF Len(a) > 0 /\ ~pa.ok
                 THEN Raise(<<>>, "ValueError") /\ UNCHANGED gen
                 ELSE /\ gen' = [pc |-> "while", k |-> k, pwd |-> <<>>, good_pwd |-> FALSE]
                      /\ out' = <<>>
                      /\ UNCHANGED <<state, key, content, content_lines>>
    /\ UNCHANGED file

\* one pass of the while loop, one draw of random.choices per step; the
\* last draw completes pwd and the for loop sets good_pwd
gen_choices ==
    /\ Running
    /\ \/ gen.pc = "while" /\ ~gen.good_pwd
       \/ gen.pc = "choices"
    /\ \E c \in chars :
          LET pwd == Append(IF gen.pc = "while" THEN <<>> ELSE gen.pwd, c)
          IN  gen' = IF Len(pwd) < gen.k
                     THEN [gen EXCEPT !.pc = "choices", !.pwd = pwd]
                     ELSE [gen EXCEPT !.pc = "while", !.pwd = pwd, !.good_pwd = good(pwd)]
    /\ UNCHANGED <<state, key, content, content_lines, file, inp, out>>

\* the loop is left: print(pwd)
gen_print ==
    /\ Running
    /\ gen.pc = "while" /\ gen.good_pwd
    /\ out' = <<[t |-> "password", i |-> gen.k, s |-> gen.pwd]>>
    /\ gen' = NoGen
    /\ UNCHANGED <<state, key, content, content_lines, file, inp>>

NextGen == gen_start \/ gen_choices \/ gen_print

\* generation reads neither the key nor the store: one fresh session
InitGen == Init /\ inp.pw = <<49>>

SpecGen == InitGen /\ [][NextGen]_vars

\* C13: Password generation postcondition. Whenever `generate [k]` prints a
\* password, its length is max(k, 4), 8 when k is omitted, and it contains
\* at least one digit, one lowercase letter, one uppercase letter and one
\* punctuation character; a candidate lacking a class is never printed.
C13_GeneratedPassword ==
    \A n \in 1..Len(out) : out[n].t = "password" =>
        LET pwd == out[n].s
            a == get_first(inp.params)
        IN  /\ Len(pwd) = Max(IF a = <<>> THEN 8 ELSE ParseInt(a).val, 4)
            /\ \A class \in {digits, ascii_lowercase, ascii_uppercase, punctuation} :
                  \E i \in 1..Len(pwd) : pwd[i] \in class

\* a password of the default length has been printed, one with a backslash
C13_Witness ==
    /\ out # <<>> /\ out[1].t = "password"
    /\ inp.params = <<>> /\ Len(out[1].s) = 8
    /\ BACKSLASH \in Range(out[1].s)

----------------------------------------------------------------------------
(* The record store of one session that starts on an empty store *)

InitStore == Init /\ Running

NextStore == write \/ delete_row \/ delete_all

SpecStore == InitStore /\ [][NextStore]_vars

\* the records, each followed by a newline except the last
RECURSIVE NewlineJoined(_)
NewlineJoined(records) ==
    IF Len(records) = 0 THEN <<>>
    ELSE IF Len(records) = 1 THEN records[1]
    ELSE records[1] \o <<NL>> \o NewlineJoined(Tail(records))

\* C14: Record Store persistence round-trip. After any sequence of `write`
\* and `delete` commands from an empty store, Content is the Records joined
\* by single newlines with no trailing separator, and splitting Content on
\* newline and discarding the empty pieces gives the same Record sequence.
C14_StoreRoundTrip ==
    /\ content = NewlineJoined(content_lines.items)
    /\ SelectSeq(Split(content, NL), LAMBDA piece : piece # <<>>) = content_lines.items

\* two records are stored and the second was written last
C14_Witness ==
    /\ Len(content_lines.items) = 2 /\ NL \in Range(content)
    /\ inp.x0 = "w" /\ inp.params = <<T_b14, T_a>>

----------------------------------------------------------------------------
\* the line is one of the commands that save: save/s, wq, sq, q answered y,
\* change
Saving(l) ==
    /\ l.line = "cmd"
    /\ \/ Dispatch(l.x0) \in {"_save", "_change_key"}
       \/ l.x0 \in {"wq", "sq"}
       \/ l.x0 = "q" /\ l.ans = "y"

\* C15: No background persistence. The file is written only during save/s,
\* wq, sq, q answered y, and change; every other line (read, write, delete,
\* DELETE, find, generate, clear, help, q!, q answered other than y, an
\* unknown command) leaves the bytes of the file exactly as they were.
C15_NoBackgroundPersistence ==
    [][(Running /\ ~Saving(inp')) => FileUntouched]_vars

\* a record was written in memory after the file was saved: memory and file
\* differ
C15_Witness ==
    /\ Running /\ inp.x0 = "w"
    /\ file.exists /\ file.body.k = key
    /\ file.body.pt # Pad(content)

\* C16: Delete-all needs confirmation. `DELETE` empties the Record sequence
\* and Content only when the prompt is answered exactly y; on n and on any
\* other answer both are unchanged; in all three cases the dispatcher stays
\* RUNNING and the file is not touched.
C16_DeleteAllConfirmed ==
    [][Handles("_delete_all") =>
          /\ state' = "RUNNING" /\ FileUntouched
          /\ inp'.ans = "y" => (content_lines'.items = <<>> /\ content' = <<>>)
          /\ inp'.ans # "y"
                => (content_lines' = content_lines /\ content' = content)]_vars

\* all rows of a saved store were deleted in memory; the file still holds
\* them
C16_Witness ==
    /\ Running /\ inp.x0 = "D" /\ inp.ans = "y"
    /\ content_lines.items = <<>> /\ content = <<>>
    /\ file.exists /\ file.body # EmptyBody /\ file.body.k = key

----------------------------------------------------------------------------
(* The session on a file system that can refuse the write *)

\* _save, reached through save/s, wq, sq or q answered y, when
\* open(self.filename, 'wb') raises OSError: _encrypt has run, nothing
\* catches the exception, the file is as it was
save_fails ==
    /\ Running
    /\ UNCHANGED gen
    /\ \/ /\ \E x0 \in Typed("_save") \cup {"wq", "sq"} : inp' = Cmd(x0, <<>>)
          /\ Raise(<<>>, "OSError")
       \/ /\ inp' = Line("cmd", "q", <<>>, "y", <<>>)
          /\ Raise(<<Msg("save changes (y/n)?:")>>, "OSError")
    /\ UNCHANGED file

NextIO == Next \/ save_fails

SpecIO == Init /\ [][NextIO]_vars

\* C17: Save failure is recoverable. If writing the file fails during
\* `save`, the failure is reported, Content and Records are exactly as
\* before the command, and the dispatcher stays RUNNING.
C17_SaveFailureRecoverable ==
    [][(Handles("_save") /\ Did("OSError"))
          => (/\ state' = "RUNNING"
              /\ content' = content /\ content_lines' = content_lines)]_vars

----------------------------------------------------------------------------
\* the line is a read-only command with well-formed arguments: read or
\* generate with integers, find with a regular expression, help, clear
ReadOnly(l) ==
    /\ l.line = "cmd"
    /\ \/ Dispatch(l.x0) \in {"_help", "_clear"}
       \/ /\ Dispatch(l.x0) \in {"_read", "_generate_password"}
          /\ \A i \in 1..Len(l.params) : ParseInt(l.params[i]).ok
       \/ Dispatch(l.x0) = "_find" /\ Compiles(get_first(l.params))

\* C18: Read-only commands have no store effect. read, find, generate, help
\* and clear, given well-formed arguments, leave the Record sequence, the
\* Content buffer and the key unchanged and the dispatcher in RUNNING.
C18_ReadOnlyCommands ==
    [][(Running /\ ReadOnly(inp'))
          => (/\ state' = "RUNNING" /\ key' = key
              /\ content' = content /\ content_lines' = content_lines)]_vars

----------------------------------------------------------------------------
\* C19: A successful `save` does not modify the in-memory state: the key,
\* the Record sequence and the Content are the same after it as before, and
\* Content is still the newline-join of the Records, whatever its length.
C19_SaveKeepsMemory ==
    [][(Handles("_save") /\ Did("saved"))
          => (/\ key' = key /\ content_lines' = content_lines
              /\ content' = content
              /\ content' = NewlineJoined(content_lines'.items))]_vars

----------------------------------------------------------------------------
\* C20: Records created through `write` never collide with the padding
\* sentinel or the separator. In a session started from an empty store,
\* after any sequence of write, delete and DELETE every Record is non-empty,
\* holds no newline byte and only bytes below 128, so the joined bytes never
\* hold the byte 255; a `write` whose text is empty or has a non-ASCII
\* character adds no Record.
C20_RecordsAvoidSentinel ==
    [][/\ \A n \in 1..Len(content_lines'.items) :
             LET record == content_lines'.items[n]
             IN  /\ record # <<>>
                 /\ \A i \in 1..Len(record) : record[i] # NL /\ record[i] < 128
       /\ FILL \notin Range(content')
       /\ LET msg == Join(inp'.params, <<SP>>)
          IN  (Handles("_write") /\ (msg = <<>> \/ \E i \in 1..Len(msg) : msg[i] >= 128))
                 => content_lines'.items = content_lines.items]_vars

\* a write with a non-ASCII character was refused on a store that holds
\* two records
C20_Witness ==
    /\ Running /\ inp.x0 = "w" /\ inp.params = <<T_nonascii>>
    /\ Len(content_lines.items) = 2
    /\ Msg("something went wrong.. please use only ascii!") \in Range(out)

====
